---------------------------- MODULE Spec2Model ----------------------------
(***************************************************************************)
(* Model of script.js, the Basal Metabolic Rate calculator: the pure       *)
(* functions calculateBMR and validateInputs, evaluated in JavaScript      *)
(* Number arithmetic (IEEE 754 binary64, round to nearest, ties to even),  *)
(* and the page handlers performCalculation, displayResult, showError      *)
(* (with its removal timer) and resetCalculator acting on the page state.  *)
(***************************************************************************)
EXTENDS Integers, Sequences, FiniteSets

(***************************************************************************)
(* Unbounded naturals.  TLC integers are 32 bits wide, a binary64          *)
(* significand has 53 bits and an exact product 106, so a natural number   *)
(* is a little-endian sequence of limbs in 0..LimbBase-1 with no leading   *)
(* zero limb; zero is the empty sequence.                                  *)
(***************************************************************************)
LimbBase == 2 ^ 15

RECURSIVE BNorm(_)
BNorm(a) ==
    IF a = <<>> THEN <<>>
    ELSE IF a[Len(a)] = 0 THEN BNorm(SubSeq(a, 1, Len(a) - 1))
    ELSE a

RECURSIVE BFromInt(_)
BFromInt(n) ==
    IF n = 0 THEN <<>> ELSE <<n % LimbBase>> \o BFromInt(n \div LimbBase)

RECURSIVE BToInt(_)
BToInt(a) ==
    IF a = <<>> THEN 0 ELSE a[1] + LimbBase * BToInt(Tail(a))

RECURSIVE BAddC(_, _, _)
BAddC(a, b, c) ==
    IF a = <<>> /\ b = <<>> THEN (IF c = 0 THEN <<>> ELSE <<c>>)
    ELSE LET x == IF a = <<>> THEN 0 ELSE a[1]
             y == IF b = <<>> THEN 0 ELSE b[1]
             s == x + y + c
         IN  <<s % LimbBase>> \o
             BAddC(IF a = <<>> THEN <<>> ELSE Tail(a),
                   IF b = <<>> THEN <<>> ELSE Tail(b), s \div LimbBase)

BAdd(a, b) == BAddC(a, b, 0)

\* a - b for a >= b
RECURSIVE BSubC(_, _, _)
BSubC(a, b, c) ==
    IF a = <<>> THEN <<>>
    ELSE LET y == IF b = <<>> THEN 0 ELSE b[1]
             d == a[1] - y - c
         IN  <<d % LimbBase>> \o
             BSubC(Tail(a), IF b = <<>> THEN <<>> ELSE Tail(b),
                   IF d < 0 THEN 1 ELSE 0)

BSub(a, b) == BNorm(BSubC(a, b, 0))

\* -1, 0, 1 as a < b, a = b, a > b
RECURSIVE BCmpFrom(_, _, _)
BCmpFrom(a, b, i) ==
    IF i = 0 THEN 0
    ELSE IF a[i] < b[i] THEN -1
    ELSE IF a[i] > b[i] THEN 1
    ELSE BCmpFrom(a, b, i - 1)

BCmp(a, b) ==
    IF Len(a) < Len(b) THEN -1
    ELSE IF Len(a) > Len(b) THEN 1
    ELSE BCmpFrom(a, b, Len(a))

\* a * k for 0 <= k <= LimbBase
RECURSIVE BMulSmallC(_, _, _)
BMulSmallC(a, k, c) ==
    IF a = <<>> THEN BFromInt(c)
    ELSE LET p == a[1] * k + c
         IN  <<p % LimbBase>> \o BMulSmallC(Tail(a), k, p \div LimbBase)

BMulSmall(a, k) == BNorm(BMulSmallC(a, k, 0))

BShlLimbs(a, n) == IF a = <<>> THEN <<>> ELSE [i \in 1..n |-> 0] \o a

RECURSIVE BMul(_, _)
BMul(a, b) ==
    IF b = <<>> \/ a = <<>> THEN <<>>
    ELSE BAdd(BMulSmall(a, b[1]), BShlLimbs(BMul(a, Tail(b)), 1))

\* quotient and remainder of a by d, 1 <= d <= LimbBase; i runs from the top limb
RECURSIVE BDivSmallFrom(_, _, _, _)
BDivSmallFrom(a, d, i, r) ==
    IF i = 0 THEN [q |-> <<>>, r |-> r]
    ELSE LET t    == r * LimbBase + a[i]
             rest == BDivSmallFrom(a, d, i - 1, t % d)
         IN  [q |-> rest.q \o <<t \div d>>, r |-> rest.r]

BDivSmall(a, d) ==
    LET res == BDivSmallFrom(a, d, Len(a), 0)
    IN  [q |-> BNorm(res.q), r |-> res.r]

RECURSIVE IntBitLen(_)
IntBitLen(n) == IF n = 0 THEN 0 ELSE 1 + IntBitLen(n \div 2)

LimbBits == IntBitLen(LimbBase) - 1

BBitLen(a) ==
    IF a = <<>> THEN 0 ELSE LimbBits * (Len(a) - 1) + IntBitLen(a[Len(a)])

\* a * 2^k
BShl(a, k) == BShlLimbs(BMulSmall(a, 2 ^ (k % LimbBits)), k \div LimbBits)

\* floor(a / 2^k)
BShr(a, k) ==
    LET n == k \div LimbBits
    IN  IF n >= Len(a) THEN <<>>
        ELSE BDivSmall(SubSeq(a, n + 1, Len(a)), 2 ^ (k % LimbBits)).q

BIsOdd(a) == a # <<>> /\ a[1] % 2 = 1

(***************************************************************************)
(* JavaScript Numbers.  A Number is NaN, or (-1)^neg * m * 2^e with m a    *)
(* natural of exactly MantBits bits, or a zero (m = <<>>, e = 0) with its  *)
(* sign.  Every operation returns the exact result rounded to the nearest  *)
(* Number, ties to the even significand.  Exponent overflow and subnormals *)
(* are out of reach of the magnitudes this program handles and are left    *)
(* out.                                                                    *)
(***************************************************************************)
MantBits == 53

NaN == [nan |-> TRUE, neg |-> FALSE, m |-> <<>>, e |-> 0]

Zero(neg) == [nan |-> FALSE, neg |-> neg, m |-> <<>>, e |-> 0]

IsZero(d) == ~d.nan /\ d.m = <<>>

\* the Number nearest to (-1)^neg * m * 2^e
RoundToDouble(neg, m, e) ==
    LET len == BBitLen(m)
    IN  IF m = <<>> THEN Zero(neg)
        ELSE IF len <= MantBits
        THEN [nan |-> FALSE, neg |-> neg,
              m |-> BShl(m, MantBits - len), e |-> e - (MantBits - len)]
        ELSE LET k    == len - MantBits
                 q    == BShr(m, k)
                 rem  == BSub(m, BShl(q, k))
                 half == BShl(<<1>>, k - 1)
                 c    == BCmp(rem, half)
                 up   == c = 1 \/ (c = 0 /\ BIsOdd(q))
                 q1   == IF up THEN BAdd(q, <<1>>) ELSE q
             IN  IF BBitLen(q1) > MantBits
                 THEN [nan |-> FALSE, neg |-> neg, m |-> BShr(q1, 1), e |-> e + k + 1]
                 ELSE [nan |-> FALSE, neg |-> neg, m |-> q1, e |-> e + k]

\* the Number of an integer
FromInt(n) == RoundToDouble(n < 0, BFromInt(IF n < 0 THEN -n ELSE n), 0)

\* the Number nearest to (-1)^neg * n / d, for naturals n and 1 <= d <= LimbBase:
\* the quotient is taken to five limbs of fractional bits, which leaves it wider
\* than a significand, and a sticky bit records a nonzero remainder, so the
\* rounding sees which side of a tie the ratio is on
FromRatio(neg, n, d) ==
    LET qr == BDivSmall(BShlLimbs(BFromInt(n), 5), d)
        m2 == BAdd(BShl(qr.q, 1), IF qr.r = 0 THEN <<>> ELSE <<1>>)
    IN  RoundToDouble(neg, m2, -(5 * LimbBits) - 1)

Negate(a) == IF a.nan THEN a ELSE [a EXCEPT !.neg = ~a.neg]

\* a * b
Mul(a, b) ==
    IF a.nan \/ b.nan THEN NaN
    ELSE RoundToDouble(a.neg # b.neg, BMul(a.m, b.m), a.e + b.e)

\* a + b
Add(a, b) ==
    IF a.nan \/ b.nan THEN NaN
    ELSE IF IsZero(a) /\ IsZero(b) THEN Zero(a.neg /\ b.neg)
    ELSE IF IsZero(a) THEN b
    ELSE IF IsZero(b) THEN a
    ELSE LET e  == IF a.e < b.e THEN a.e ELSE b.e
             ma == BShl(a.m, a.e - e)
             mb == BShl(b.m, b.e - e)
             c  == BCmp(ma, mb)
         IN  IF a.neg = b.neg THEN RoundToDouble(a.neg, BAdd(ma, mb), e)
             ELSE IF c = 0 THEN Zero(FALSE)
             ELSE IF c = 1 THEN RoundToDouble(a.neg, BSub(ma, mb), e)
             ELSE RoundToDouble(b.neg, BSub(mb, ma), e)

\* a - b
Sub(a, b) == Add(a, Negate(b))

\* -1, 0, 1 as a < b, a = b, a > b, for Numbers that are not NaN
Cmp(a, b) ==
    LET e   == IF a.e < b.e THEN a.e ELSE b.e
        mag == BCmp(BShl(a.m, a.e - e), BShl(b.m, b.e - e))
    IN  IF IsZero(a) /\ IsZero(b) THEN 0
        ELSE IF IsZero(a) THEN (IF b.neg THEN 1 ELSE -1)
        ELSE IF IsZero(b) THEN (IF a.neg THEN -1 ELSE 1)
        ELSE IF a.neg /\ ~b.neg THEN -1
        ELSE IF ~a.neg /\ b.neg THEN 1
        ELSE IF a.neg THEN -mag ELSE mag

\* a < b and a > b: false when either is NaN
Lt(a, b) == ~a.nan /\ ~b.nan /\ Cmp(a, b) = -1

Gt(a, b) == ~a.nan /\ ~b.nan /\ Cmp(a, b) = 1

\* !a: a Number is falsy when it is NaN, +0 or -0
Not(a) == a.nan \/ IsZero(a)

\* Math.round: the integer nearest to a, a tie going towards +Infinity;
\* a result of zero keeps the sign of a
MathRound(a) ==
    IF a.nan \/ IsZero(a) \/ a.e >= 0 THEN a
    ELSE LET k    == -a.e
             half == BShl(<<1>>, k - 1)
         IN  IF ~a.neg
             THEN RoundToDouble(FALSE, BShr(BAdd(a.m, half), k), 0)
             ELSE IF BCmp(a.m, half) <= 0 THEN Zero(TRUE)
             ELSE RoundToDouble(TRUE,
                      BShr(BAdd(BSub(a.m, half), BSub(BShl(<<1>>, k), <<1>>)), k), 0)

\* the value of a Number that is an integer below 2^31 in magnitude
IntValue(a) ==
    LET mag == IF a.e >= 0 THEN BToInt(BShl(a.m, a.e)) ELSE BToInt(BShr(a.m, -a.e))
    IN  IF a.neg THEN -mag ELSE mag

(***************************************************************************)
(* The pure functions of script.js.                                        *)
(***************************************************************************)
\* a decimal literal of the source with three fractional digits, such as
\* 88.362 = Literal3(88362): the Number nearest to thousandths / 1000
Literal3(thousandths) == FromRatio(FALSE, thousandths, 1000)

\* the coefficients of the two formulas, as the Numbers their literals denote
MaleFormula ==
    [base |-> Literal3(88362), weight |-> Literal3(13397),
     height |-> Literal3(4799), age |-> Literal3(5677)]

FemaleFormula ==
    [base |-> Literal3(447593), weight |-> Literal3(9247),
     height |-> Literal3(3098), age |-> Literal3(4330)]

\* base + (k.weight * weight) + (k.height * height) - (k.age * age), left to right
Formula(k, age, height, weight) ==
    Sub(Add(Add(k.base, Mul(k.weight, weight)), Mul(k.height, height)),
        Mul(k.age, age))

calculateBMRUnrounded(gender, age, height, weight) ==
    IF gender = "male" THEN Formula(MaleFormula, age, height, weight)
    ELSE Formula(FemaleFormula, age, height, weight)

calculateBMRAnyCase(gender, age, height, weight) ==
    MathRound(IF gender \in {"male", "Male"}
              THEN Formula(MaleFormula, age, height, weight)
              ELSE Formula(FemaleFormula, age, height, weight))

calculateBMR(gender, age, height, weight) ==
    LET bmr == IF gender = "male"
               THEN Formula(MaleFormula, age, height, weight)
               ELSE Formula(FemaleFormula, age, height, weight)
    IN  MathRound(bmr)

\* the three messages of validateInputs (Chinese in the source): "please enter
\* a valid age (1-120 years)", "... height (50-250 cm)", "... weight (20-300 kg)"
AgeMessage == "qing shuru youxiao de nianling (1-120 sui)"

HeightMessage == "qing shuru youxiao de shengao (50-250 limi)"

WeightMessage == "qing shuru youxiao de tizhong (20-300 gongjin)"

\* the bounds validateInputs compares with, as Numbers
Limits ==
    [ageMin |-> FromInt(1), ageMax |-> FromInt(120),
     heightMin |-> FromInt(50), heightMax |-> FromInt(250),
     weightMin |-> FromInt(20), weightMax |-> FromInt(300)]

Le(a, b) == ~a.nan /\ ~b.nan /\ Cmp(a, b) <= 0

Ge(a, b) == ~a.nan /\ ~b.nan /\ Cmp(a, b) >= 0

validateInputsExclusive(age, height, weight) ==
    IF Not(age) \/ Le(age, Limits.ageMin) \/ Ge(age, Limits.ageMax)
    THEN [isValid |-> FALSE, message |-> AgeMessage]
    ELSE IF Not(height) \/ Le(height, Limits.heightMin) \/ Ge(height, Limits.heightMax)
    THEN [isValid |-> FALSE, message |-> HeightMessage]
    ELSE IF Not(weight) \/ Le(weight, Limits.weightMin) \/ Ge(weight, Limits.weightMax)
    THEN [isValid |-> FALSE, message |-> WeightMessage]
    ELSE [isValid |-> TRUE, message |-> ""]

validateInputsWeightFirst(age, height, weight) ==
    IF Not(weight) \/ Lt(weight, Limits.weightMin) \/ Gt(weight, Limits.weightMax)
    THEN [isValid |-> FALSE, message |-> WeightMessage]
    ELSE IF Not(height) \/ Lt(height, Limits.heightMin) \/ Gt(height, Limits.heightMax)
    THEN [isValid |-> FALSE, message |-> HeightMessage]
    ELSE IF Not(age) \/ Lt(age, Limits.ageMin) \/ Gt(age, Limits.ageMax)
    THEN [isValid |-> FALSE, message |-> AgeMessage]
    ELSE [isValid |-> TRUE, message |-> ""]

validateInputs(age, height, weight) ==
    IF Not(age) \/ Lt(age, Limits.ageMin) \/ Gt(age, Limits.ageMax)
    THEN [isValid |-> FALSE, message |-> AgeMessage]
    ELSE IF Not(height) \/ Lt(height, Limits.heightMin) \/ Gt(height, Limits.heightMax)
    THEN [isValid |-> FALSE, message |-> HeightMessage]
    ELSE IF Not(weight) \/ Lt(weight, Limits.weightMin) \/ Gt(weight, Limits.weightMax)
    THEN [isValid |-> FALSE, message |-> WeightMessage]
    ELSE [isValid |-> TRUE, message |-> ""]

(***************************************************************************)
(* Strings are sequences of one-character strings.                         *)
(***************************************************************************)
DigitChars == <<"0", "1", "2", "3", "4", "5", "6", "7", "8", "9">>

IsDigit(c) == \E i \in 1..Len(DigitChars) : DigitChars[i] = c

DigitValue(c) == (CHOOSE i \in 1..Len(DigitChars) : DigitChars[i] = c) - 1

\* the longest prefix of s made of decimal digits
RECURSIVE DigitPrefix(_)
DigitPrefix(s) ==
    IF s # <<>> /\ IsDigit(s[1]) THEN <<s[1]>> \o DigitPrefix(Tail(s)) ELSE <<>>

\* the natural a sequence of digits denotes
RECURSIVE DigitsValue(_)
DigitsValue(ds) ==
    IF ds = <<>> THEN 0
    ELSE 10 * DigitsValue(SubSeq(ds, 1, Len(ds) - 1)) + DigitValue(ds[Len(ds)])

Drop(s, n) == SubSeq(s, n + 1, Len(s))

HasSign(s) == s # <<>> /\ s[1] \in {"+", "-"}

\* parseInt(string), radix 10: an optional sign and the longest run of digits;
\* what follows the digits is ignored, and NaN when there is no digit
parseInt(s) ==
    LET neg  == s # <<>> /\ s[1] = "-"
        body == IF HasSign(s) THEN Tail(s) ELSE s
        ds   == DigitPrefix(body)
    IN  IF ds = <<>> THEN NaN
        ELSE RoundToDouble(neg, BFromInt(DigitsValue(ds)), 0)

\* parseFloat(string): the longest prefix that is a decimal literal (sign, digits,
\* fraction, exponent), NaN when there is none; the value is the Number nearest
\* to the decimal.  The fields hold at most four fractional digits.
parseFloat(s) ==
    LET neg    == s # <<>> /\ s[1] = "-"
        body   == IF HasSign(s) THEN Tail(s) ELSE s
        ip     == DigitPrefix(body)
        r1     == Drop(body, Len(ip))
        hasDot == r1 # <<>> /\ r1[1] = "."
        fp     == IF hasDot THEN DigitPrefix(Tail(r1)) ELSE <<>>
        r2     == IF hasDot THEN Drop(r1, 1 + Len(fp)) ELSE r1
        hasE   == r2 # <<>> /\ r2[1] \in {"e", "E"}
        r3     == IF hasE THEN Tail(r2) ELSE <<>>
        eneg   == r3 # <<>> /\ r3[1] = "-"
        ep     == DigitPrefix(IF HasSign(r3) THEN Tail(r3) ELSE r3)
        ex     == IF ep = <<>> THEN 0
                  ELSE IF eneg THEN -DigitsValue(ep) ELSE DigitsValue(ep)
        scale  == ex - Len(fp)
        n      == DigitsValue(ip \o fp)
    IN  IF ip = <<>> /\ fp = <<>> THEN NaN
        ELSE IF scale >= 0 THEN FromRatio(neg, n * 10 ^ scale, 1)
        ELSE FromRatio(neg, n, 10 ^ (-scale))

\* whether a Number is an integer
IsInteger(a) ==
    ~a.nan /\ (IsZero(a) \/ a.e >= 0 \/ BShl(BShr(a.m, -a.e), -a.e) = a.m)

\* the decimal digits of a natural
RECURSIVE DigitsOf(_)
DigitsOf(n) ==
    IF n < 10 THEN <<DigitChars[n + 1]>>
    ELSE DigitsOf(n \div 10) \o <<DigitChars[(n % 10) + 1]>>

\* digits in groups of three from the right, separated by ","
RECURSIVE Grouped(_)
Grouped(ds) ==
    IF Len(ds) <= 3 THEN ds
    ELSE Grouped(SubSeq(ds, 1, Len(ds) - 3)) \o <<",">> \o
         SubSeq(ds, Len(ds) - 2, Len(ds))

\* Number.prototype.toLocaleString() of an integer Number, in a locale that
\* groups by thousands with "," (en-US, zh-CN): -0 keeps its sign
toLocaleString(a) ==
    IF a.nan THEN <<"N", "a", "N">>
    ELSE LET n == IntValue(a)
         IN  (IF a.neg THEN <<"-">> ELSE <<>>) \o
             Grouped(DigitsOf(IF n < 0 THEN -n ELSE n))

(***************************************************************************)
(* The page.                                                               *)
(***************************************************************************)
VARIABLES
    checkedGender,  \* value of the checked input[name="gender"]
    ageValue,       \* #age.value
    heightValue,    \* #height.value
    weightValue,    \* #weight.value
    bmrResult,      \* #bmrResult.textContent
    resultDisplay,  \* #resultSection.style.display
    inputDisplay,   \* .input-section.style.display
    errors,         \* the .error-message children of .calculator, first child first
    timers,         \* the notices whose removal timeout is pending, oldest first
    nextId,         \* how many notices showError has created
    calculated,     \* history: the arguments of the latest calculateBMR call of the page
    lastShow,       \* history: the latest of displayResult and resetCalculator
    call            \* a direct call of a pure function: arguments and result

vars == <<checkedGender, ageValue, heightValue, weightValue, bmrResult,
          resultDisplay, inputDisplay, errors, timers, nextId, calculated,
          lastShow, call>>

form == <<checkedGender, ageValue, heightValue, weightValue>>

sections == <<bmrResult, resultDisplay, inputDisplay>>

notices == <<errors, timers, nextId>>

history == <<calculated, lastShow>>

\* notices showError may create in one run of the model
MaxErrors == 3

\* what the user types into the fields
AgeTexts == {<<>>, <<"3", "0">>, <<"1", "2", "1">>}

HeightTexts == {<<>>, <<"1", "7", "5">>}

WeightTexts == {<<>>, <<"7", "0", ".", "5">>}

GenderValues == {"male", "female"}

\* the page as loaded: empty fields, nothing computed, and the sections' inline
\* display either unset or as the script would set it for the input view
InitialResultText == <<>>

NotCalculated ==
    [called |-> FALSE, gender |-> "", age |-> NaN, height |-> NaN, weight |-> NaN]

\* an argument of a direct call, written as a decimal literal with one
\* fractional digit (tenths / 10), or NaN
Dec(tenths) == [nan |-> FALSE, tenths |-> tenths]

NaNArg == [nan |-> TRUE, tenths |-> 0]

\* the Number an argument denotes
ArgNumber(arg) ==
    IF arg.nan THEN NaN
    ELSE FromRatio(arg.tenths < 0, IF arg.tenths < 0 THEN -arg.tenths ELSE arg.tenths, 10)

NoCall ==
    [fn |-> "none", gender |-> "", age |-> NaNArg, height |-> NaNArg,
     weight |-> NaNArg, isValid |-> FALSE, message |-> "", value |-> NaN]

Init ==
    /\ checkedGender \in GenderValues
    /\ ageValue = <<>>
    /\ heightValue = <<>>
    /\ weightValue = <<>>
    /\ bmrResult = InitialResultText
    /\ resultDisplay \in {"", "none"}
    /\ inputDisplay \in {"", "block"}
    /\ errors = <<>>
    /\ timers = <<>>
    /\ nextId = 0
    /\ calculated = NotCalculated
    /\ lastShow = "none"
    /\ call = NoCall

\* the user edits a field or picks a gender
InputAge(s) ==
    /\ ageValue' = s
    /\ UNCHANGED <<checkedGender, heightValue, weightValue, sections, notices,
                   history, call>>

InputHeight(s) ==
    /\ heightValue' = s
    /\ UNCHANGED <<checkedGender, ageValue, weightValue, sections, notices,
                   history, call>>

InputWeight(s) ==
    /\ weightValue' = s
    /\ UNCHANGED <<checkedGender, ageValue, heightValue, sections, notices,
                   history, call>>

SelectGender(g) ==
    /\ checkedGender' = g
    /\ UNCHANGED <<ageValue, heightValue, weightValue, sections, notices,
                   history, call>>

\* showError: a new notice becomes the first child of .calculator and a timeout
\* is set for it
showError(message) ==
    /\ nextId < MaxErrors
    /\ nextId' = nextId + 1
    /\ errors' = <<[id |-> nextId + 1, textContent |-> message]>> \o errors
    /\ timers' = Append(timers, nextId + 1)

\* the timeout callback of showError: timeouts of one delay run in the order
\* they were set; the notice is removed if it is still in the page
RemoveError ==
    /\ timers # <<>>
    /\ errors' = SelectSeq(errors, LAMBDA n : n.id # Head(timers))
    /\ timers' = Tail(timers)
    /\ UNCHANGED <<form, sections, nextId, history, call>>

displayResultKeepsInput(bmr) ==
    /\ bmrResult' = toLocaleString(bmr)
    /\ resultDisplay' = "block"
    /\ lastShow' = "displayResult"
    /\ UNCHANGED inputDisplay

displayResult(bmr) ==
    /\ bmrResult' = toLocaleString(bmr)
    /\ resultDisplay' = "block"
    /\ inputDisplay' = "none"
    /\ lastShow' = "displayResult"

\* the values performCalculation reads from the form
ReadAge == parseInt(ageValue)

ReadHeight == parseFloat(heightValue)

ReadWeight == parseFloat(weightValue)

performCalculationNoReturn ==
    LET validation == validateInputs(ReadAge, ReadHeight, ReadWeight)
    IN  /\ IF validation.isValid THEN UNCHANGED notices
           ELSE showError(validation.message)
        /\ calculated' = [called |-> TRUE, gender |-> checkedGender, age |-> ReadAge,
                          height |-> ReadHeight, weight |-> ReadWeight]
        /\ displayResult(calculateBMR(checkedGender, ReadAge, ReadHeight, ReadWeight))
        /\ UNCHANGED <<form, call>>

performCalculationDropsResult ==
    LET validation == validateInputs(ReadAge, ReadHeight, ReadWeight)
    IN  IF ~validation.isValid
        THEN /\ showError(validation.message)
             /\ resultDisplay' = "none"
             /\ inputDisplay' = "block"
             /\ UNCHANGED <<form, bmrResult, history, call>>
        ELSE /\ calculated' = [called |-> TRUE, gender |-> checkedGender,
                               age |-> ReadAge, height |-> ReadHeight,
                               weight |-> ReadWeight]
             /\ displayResult(calculateBMR(checkedGender, ReadAge, ReadHeight,
                                           ReadWeight))
             /\ UNCHANGED <<form, notices, call>>

performCalculation ==
    LET gender     == checkedGender
        age        == ReadAge
        height     == ReadHeight
        weight     == ReadWeight
        validation == validateInputs(age, height, weight)
    IN  IF ~validation.isValid
        THEN /\ showError(validation.message)
             /\ UNCHANGED <<form, sections, history, call>>
        ELSE /\ calculated' = [called |-> TRUE, gender |-> gender, age |-> age,
                               height |-> height, weight |-> weight]
             /\ displayResult(calculateBMR(gender, age, height, weight))
             /\ UNCHANGED <<form, notices, call>>

resetCalculatorKeepsWeight ==
    /\ resultDisplay' = "none"
    /\ inputDisplay' = "block"
    /\ ageValue' = <<>>
    /\ heightValue' = <<>>
    /\ checkedGender' = "male"
    /\ lastShow' = "resetCalculator"
    /\ UNCHANGED <<weightValue, bmrResult, notices, calculated, call>>

resetCalculatorClearsNotices ==
    /\ resultDisplay' = "none"
    /\ inputDisplay' = "block"
    /\ ageValue' = <<>>
    /\ heightValue' = <<>>
    /\ weightValue' = <<>>
    /\ checkedGender' = "male"
    /\ lastShow' = "resetCalculator"
    /\ errors' = <<>>
    /\ UNCHANGED <<bmrResult, timers, nextId, calculated, call>>

resetCalculator ==
    /\ resultDisplay' = "none"
    /\ inputDisplay' = "block"
    /\ ageValue' = <<>>
    /\ heightValue' = <<>>
    /\ weightValue' = <<>>
    /\ checkedGender' = "male"
    /\ lastShow' = "resetCalculator"
    /\ UNCHANGED <<bmrResult, notices, calculated, call>>

\* The button and the Enter key both run performCalculation; scrolling, the
\* border colour of a field and the animations change nothing the handlers read
\* and are left out.
Next ==
    \/ \E s \in AgeTexts : InputAge(s)
    \/ \E s \in HeightTexts : InputHeight(s)
    \/ \E s \in WeightTexts : InputWeight(s)
    \/ \E g \in GenderValues : SelectGender(g)
    \/ performCalculation
    \/ resetCalculator
    \/ RemoveError

Spec == Init /\ [][Next]_vars

\* the event loop runs every timeout that is due
SpecLive == Spec /\ WF_vars(RemoveError)

(***************************************************************************)
(* Direct calls of the pure functions, on arguments around the limits of   *)
(* validateInputs and on the sample measurements.                          *)
(***************************************************************************)
\* how far around each limit the arguments reach: years for the age, tenths
\* of a centimetre or kilogram for height and weight
Margin == 1

Around(centre) == (centre - Margin)..(centre + Margin)

AgeArgs ==
    {NaNArg} \cup {Dec(10 * a) : a \in Around(1) \cup Around(120) \cup {30, 105}}

HeightArgs ==
    {NaNArg} \cup
    {Dec(t) : t \in Around(500) \cup Around(2500) \cup {0, 530, 1650, 1750}}

WeightArgs ==
    {NaNArg} \cup
    {Dec(t) : t \in Around(200) \cup Around(3000) \cup {0, 440, 450, 600, 700, 1110}}

GenderArgs == {"male", "female", "", "Male"}

PureInit ==
    /\ checkedGender = "male"
    /\ ageValue = <<>>
    /\ heightValue = <<>>
    /\ weightValue = <<>>
    /\ bmrResult = InitialResultText
    /\ resultDisplay = ""
    /\ inputDisplay = ""
    /\ errors = <<>>
    /\ timers = <<>>
    /\ nextId = 0
    /\ calculated = NotCalculated
    /\ lastShow = "none"
    /\ \E g \in GenderArgs, a \in AgeArgs, h \in HeightArgs, w \in WeightArgs :
           call = [NoCall EXCEPT !.gender = g, !.age = a, !.height = h, !.weight = w]

CallValidateInputs ==
    /\ call.fn = "none"
    /\ LET r == validateInputs(ArgNumber(call.age), ArgNumber(call.height),
                               ArgNumber(call.weight))
       IN  call' = [call EXCEPT !.fn = "validateInputs", !.isValid = r.isValid,
                                !.message = r.message]
    /\ UNCHANGED <<form, sections, notices, history>>

CallCalculateBMR ==
    /\ call.fn = "none"
    /\ call' = [call EXCEPT !.fn = "calculateBMR",
                            !.value = calculateBMR(call.gender, ArgNumber(call.age),
                                          ArgNumber(call.height), ArgNumber(call.weight))]
    /\ UNCHANGED <<form, sections, notices, history>>

PureNext == CallValidateInputs \/ CallCalculateBMR

SpecPure == PureInit /\ [][PureNext]_vars

(***************************************************************************)
(* Properties.                                                             *)
(***************************************************************************)
InRange(arg, lo, hi) == ~arg.nan /\ 10 * lo <= arg.tenths /\ arg.tenths <= 10 * hi

IntegerInRange(arg, lo, hi) == InRange(arg, lo, hi) /\ arg.tenths % 10 = 0

\* missing, NaN, 0 or outside [lo, hi]
Failing(arg, lo, hi) == ~InRange(arg, lo, hi)

\* C1: validateInputs returns isValid = true with an empty message for every age
\* in [1,120], height in [50,250] and weight in [20,300], the limits included
C1_ValidInRange ==
    (/\ call.fn = "validateInputs"
     /\ InRange(call.age, 1, 120)
     /\ InRange(call.height, 50, 250)
     /\ InRange(call.weight, 20, 300))
    => (call.isValid /\ call.message = "")

C1_Witness ==
    /\ call.fn = "validateInputs"
    /\ call.age = Dec(1200) /\ call.height = Dec(500) /\ call.weight = Dec(3000)
    /\ call.isValid

\* C2: validateInputs rejects with the message of the first failing field in the
\* order age, height, weight, whatever the later fields hold
C2_FirstFailureWins ==
    call.fn = "validateInputs" =>
        /\ Failing(call.age, 1, 120)
               => (~call.isValid /\ call.message = AgeMessage)
        /\ (~Failing(call.age, 1, 120) /\ Failing(call.height, 50, 250))
               => (~call.isValid /\ call.message = HeightMessage)
        /\ (/\ ~Failing(call.age, 1, 120) /\ ~Failing(call.height, 50, 250)
            /\ Failing(call.weight, 20, 300))
               => (~call.isValid /\ call.message = WeightMessage)

C2_Witness ==
    /\ call.fn = "validateInputs"
    /\ call.age = Dec(1210) /\ call.height = Dec(1750) /\ call.weight = NaNArg
    /\ ~call.isValid /\ call.message = AgeMessage

\* the formula in thousandths, rounded to the nearest integer, a tie going up
RoundedFormula(gender, a, h, w) ==
    IF gender = "male"
    THEN (88362 + 13397 * w + 4799 * h - 5677 * a + 500) \div 1000
    ELSE (447593 + 9247 * w + 3098 * h - 4330 * a + 500) \div 1000

\* C3: for integer age, height and weight in the validated ranges calculateBMR
\* returns the formula value rounded to the nearest integer, ties rounded up
C3_RoundedFormula ==
    (/\ call.fn = "calculateBMR"
     /\ call.gender \in {"male", "female"}
     /\ IntegerInRange(call.age, 1, 120)
     /\ IntegerInRange(call.height, 50, 250)
     /\ IntegerInRange(call.weight, 20, 300))
    => /\ IsInteger(call.value)
       /\ IntValue(call.value) =
              RoundedFormula(call.gender, call.age.tenths \div 10,
                             call.height.tenths \div 10, call.weight.tenths \div 10)

\* C4: every gender other than 'male' gives the result of 'female'
C4_NotMaleIsFemale ==
    (call.fn = "calculateBMR" /\ call.gender # "male")
    => call.value = calculateBMR("female", ArgNumber(call.age),
                                 ArgNumber(call.height), ArgNumber(call.weight))

C4_Witness ==
    /\ call.fn = "calculateBMR"
    /\ call.gender = "Male"
    /\ call.age = Dec(300) /\ call.height = Dec(1650) /\ call.weight = Dec(600)
    /\ IntValue(call.value) = 1384

Accepted ==
    validateInputs(ArgNumber(call.age), ArgNumber(call.height),
                   ArgNumber(call.weight)).isValid

\* C9: for every accepted age, height and weight and either gender calculateBMR
\* returns an integer strictly greater than 0
C9_Positive ==
    (call.fn = "calculateBMR" /\ Accepted)
    => (IsInteger(call.value) /\ IntValue(call.value) > 0)

\* C9 as amended: the result is an integer, greater than 0 for every gender
\* other than 'male' and at least -85 for 'male'
C9_IntegerAtLeast ==
    (call.fn = "calculateBMR" /\ Accepted)
    => /\ IsInteger(call.value)
       /\ call.gender # "male" => IntValue(call.value) > 0
       /\ call.gender = "male" => IntValue(call.value) >= -85

C9_Witness ==
    /\ call.fn = "calculateBMR"
    /\ call.gender = "male"
    /\ call.age = Dec(1200) /\ call.height = Dec(500) /\ call.weight = Dec(200)
    /\ IntValue(call.value) = -85

Invalid == ~validateInputs(ReadAge, ReadHeight, ReadWeight).isValid

\* C5: calculateBMR is called, and its result displayed, only for values that
\* validateInputs accepted; the text of bmrResult is the result of that call
C5_OnlyValidated ==
    IF calculated.called
    THEN /\ validateInputs(calculated.age, calculated.height, calculated.weight).isValid
         /\ bmrResult = toLocaleString(calculateBMR(calculated.gender, calculated.age,
                                           calculated.height, calculated.weight))
    ELSE bmrResult = InitialResultText

C5_Witness ==
    /\ calculated.called
    /\ bmrResult = <<"1", ",", "7", "0", "2">>
    /\ Invalid
    /\ errors # <<>>

\* C6: a performCalculation that fails validation adds exactly one notice, with
\* the validation message, and changes neither the result, the sections nor the form
C6_FailureFrame ==
    [][(UNCHANGED form /\ performCalculation /\ Invalid)
       => /\ errors' = <<[id |-> nextId + 1,
                          textContent |-> validateInputs(ReadAge, ReadHeight,
                                                         ReadWeight).message]>> \o errors
          /\ UNCHANGED <<bmrResult, resultDisplay, inputDisplay, form>>]_vars

C6_Witness ==
    /\ Invalid
    /\ resultDisplay = "block"
    /\ bmrResult # InitialResultText
    /\ errors # <<>>
    /\ errors[1].textContent =
           validateInputs(ReadAge, ReadHeight, ReadWeight).message

NoticeIds == {errors[i].id : i \in 1..Len(errors)}

TimerIds == {timers[i] : i \in 1..Len(timers)}

\* C7: every notice is removed by its own timer and by nothing else: notices
\* pile up until their timers fire, a timer removes the notice it was set for,
\* and no other step removes one
C7_NoticesExpire ==
    /\ [](NoticeIds = TimerIds /\ Len(errors) = Len(timers))
    /\ [][nextId' # nextId
          => /\ Len(errors') = Len(errors) + 1
             /\ NoticeIds \subseteq NoticeIds']_vars
    /\ [][(nextId' = nextId /\ timers' # timers)
          => /\ timers # <<>>
             /\ NoticeIds' = NoticeIds \ {Head(timers)}
             /\ Len(errors') = Len(errors) - 1]_vars
    /\ [][(nextId' = nextId /\ timers' = timers) => errors' = errors]_vars
    /\ \A id \in 1..MaxErrors : (id \in NoticeIds) ~> (id \notin NoticeIds)

C7_Witness ==
    /\ Len(errors) >= 2
    /\ resultDisplay = "block"
    /\ lastShow = "displayResult"

ResetPost ==
    /\ resultDisplay = "none"
    /\ inputDisplay = "block"
    /\ ageValue = <<>>
    /\ heightValue = <<>>
    /\ weightValue = <<>>
    /\ checkedGender = "male"

\* C8: resetCalculator hides the result, shows the input section, empties the
\* fields and selects 'male'; a performCalculation in that state adds the age
\* message and displays nothing
C8_Reset ==
    [][/\ resetCalculator => ResetPost'
       /\ (ResetPost /\ performCalculation)
              => /\ errors' = <<[id |-> nextId + 1, textContent |-> AgeMessage]>> \o errors
                 /\ ResetPost'
                 /\ UNCHANGED bmrResult]_vars

C8_Witness ==
    /\ ResetPost
    /\ lastShow = "resetCalculator"
    /\ bmrResult # InitialResultText
    /\ errors # <<>>
    /\ errors[1].textContent = AgeMessage

Visible(display) == display # "none"

\* C10: once a calculation has succeeded or the calculator was reset, exactly
\* one section is visible, the result section exactly when the latest of those
\* calls was a successful calculation; a failed calculation changes neither
C10_OneSection ==
    /\ [](lastShow # "none"
            => /\ Visible(resultDisplay) # Visible(inputDisplay)
               /\ (resultDisplay = "block" /\ inputDisplay = "none")
                      <=> lastShow = "displayResult")
    /\ [][nextId' # nextId => UNCHANGED <<resultDisplay, inputDisplay, lastShow>>]_vars

C10_Witness ==
    /\ lastShow = "resetCalculator"
    /\ calculated.called
    /\ inputDisplay = "block"
    /\ resultDisplay = "none"
    /\ errors # <<>>

=============================================================================
